---- MODULE Spec2Model ----
(***************************************************************************)
(* Model of BlockPrinter::print (src/src/printer/block.rs): rendering of a *)
(* pixel grid as half-block glyphs, two pixel rows per terminal row.       *)
(*                                                                         *)
(* One behaviour is one call of print.  The program counter pc follows the *)
(* function top to bottom; each action is one stretch of the function.     *)
(* The pixels of the image are drawn one by one as the iterator            *)
(* img.pixels() yields them.  The terminal is the device behind stdout: it *)
(* holds the cursor row and counts what has been written to it.  Writes to *)
(* out_buffer (execute!, write!, set_color on a termcolor Buffer) go to    *)
(* memory and reach the terminal only in print_buffer.                     *)
(***************************************************************************)
EXTENDS Integers, Sequences, FiniteSets, TLC

\* ------------------------------------------------------------------ bounds
MaxWidth  == 2      \* image widths 0..MaxWidth
MaxHeight == 3      \* image heights 0..MaxHeight
MaxPixels == 6      \* images of at most MaxPixels pixels
MaxUp     == 2      \* config.y ranges over -MaxUp..MaxDown
MaxDown   == 1
MaxX      == 1      \* config.x ranges over 0..MaxX
MaxRow    == 2      \* terminal rows 0..MaxRow (the cursor starts on any)

\* --------------------------------------------------------------- constants
UPPER_HALF_BLOCK == "U+2580"
LOWER_HALF_BLOCK == "U+2584"

\* Rgba<u8> samples <<r, g, b, a>> the image may hold: an opaque blue and a
\* sample of alpha 0 that still carries a red channel.
PixelValues == { <<0, 0, 255, 255>>, <<255, 0, 0, 0>> }

\* ------------------------------------------------------------------ colors
\* Option<Color>: None, Color::Rgb(r, g, b), Color::Ansi256(i)
None       == <<"None">>
Rgb(r, g, b) == <<"Rgb", r, g, b>>
Ansi256(i) == <<"Ansi256", i>>

\* The 6x6x6 cube and the grey ramp of the 256-colour palette.
CubeLevel(v) == IF v < 48 THEN 0 ELSE IF v < 115 THEN 1 ELSE (v - 35) \div 40
CubeValue(l) == IF l = 0 THEN 0 ELSE 55 + 40 * l
GreyStep(v)  == IF v < 14 THEN 0 ELSE IF v > 233 THEN 23 ELSE (v - 4) \div 10
GreyValue(s) == 8 + 10 * s
Sq(d)        == d * d

\* ansi_colours::ansi256_from_rgb: the index of the nearest palette entry,
\* the nearer of the best cube entry and the best grey-ramp entry.
ansi256_from_rgb(rgb) ==
  LET lr == CubeLevel(rgb[1])
      lg == CubeLevel(rgb[2])
      lb == CubeLevel(rgb[3])
      cubeDist == Sq(rgb[1] - CubeValue(lr)) + Sq(rgb[2] - CubeValue(lg))
                    + Sq(rgb[3] - CubeValue(lb))
      s  == GreyStep((rgb[1] + rgb[2] + rgb[3]) \div 3)
      greyDist == Sq(rgb[1] - GreyValue(s)) + Sq(rgb[2] - GreyValue(s))
                    + Sq(rgb[3] - GreyValue(s))
  IN  IF greyDist < cubeDist THEN 232 + s ELSE 16 + 36 * lr + 6 * lg + lb

is_pixel_transparent(data) == data[4] = 0

\* mutant of get_transparency_color: the two greys exchanged
get_transparency_color_Inverted(row, col, truecolor) ==
  LET rgb == IF row % 2 = col % 2 THEN <<153, 153, 153>> ELSE <<102, 102, 102>>
  IN  IF truecolor THEN Rgb(rgb[1], rgb[2], rgb[3])
                   ELSE Ansi256(ansi256_from_rgb(rgb))

get_transparency_color(row, col, truecolor) ==
  LET rgb == IF row % 2 = col % 2 THEN <<102, 102, 102>> ELSE <<153, 153, 153>>
  IN  IF truecolor THEN Rgb(rgb[1], rgb[2], rgb[3])
                   ELSE Ansi256(ansi256_from_rgb(rgb))

\* mutant of get_color_from_pixel: the truecolor flag is ignored
get_color_from_pixel_AlwaysRgb(data, truecolor) ==
  Rgb(data[1], data[2], data[3])

get_color_from_pixel(data, truecolor) ==
  LET rgb == <<data[1], data[2], data[3]>>
  IN  IF truecolor THEN Rgb(rgb[1], rgb[2], rgb[3])
                   ELSE Ansi256(ansi256_from_rgb(rgb))

\* ------------------------------------------------- commands in out_buffer
MoveTo(col, row)      == [op |-> "MoveTo", col |-> col, row |-> row]
MoveToPreviousLine(n) == [op |-> "MoveToPreviousLine", n |-> n]
MoveToNextLine(n)     == [op |-> "MoveToNextLine", n |-> n]
MoveRight(n)          == [op |-> "MoveRight", n |-> n]
SetColor(spec)        == [op |-> "SetColor", fg |-> spec.fg, bg |-> spec.bg]
Glyph(ch)             == [op |-> "Glyph", ch |-> ch]
Newline               == [op |-> "Newline"]

\* ColorSpec::new(): neither foreground nor background set
ColorSpecNew == [fg |-> None, bg |-> None]

\* --------------------------------------------------------------- variables
VARIABLES
  config,      \* Config: absolute_offset, y, x, truecolor, transparent
  img,         \* the image's dimensions: width, height
  is_tty,      \* std::io::stdout().is_tty()
  term,        \* the terminal: cursor row, what has been written to it
  pc,          \* position in print
  result,      \* what print returned: "none" while it runs
  cursor_pos,  \* Option<row> sampled before rendering
  out_buffer,  \* termcolor Buffer: commands not yet written to the terminal
  row_buffer,  \* Vec<ColorSpec> of the row pair being assembled
  mode,        \* Mode::Top or Mode::Bottom
  curr_col_px,
  curr_row_px,
  px_i,        \* number of pixels img.pixels() has yielded
  pair_px,     \* history: the pixels yielded since the last row flush
  all_alpha0,  \* history: every pixel yielded so far had alpha 0
  rows_filled, \* history: number of calls of fill_out_buffer
  last_row,    \* history: the terminal row the last step put into out_buffer
  queries,     \* history: number of calls of position()
  start_row,   \* history: the cursor row when print was called
  fails        \* history: the I/O failures of this call

vars == << config, img, is_tty, term, pc, result, cursor_pos, out_buffer,
           row_buffer, mode, curr_col_px, curr_row_px, px_i, pair_px,
           all_alpha0, rows_filled, last_row, queries, start_row, fails >>

BOOL == {TRUE, FALSE}
NoPos == [some |-> FALSE, y |-> 0]
SomePos(y) == [some |-> TRUE, y |-> y]

\* Outcomes of one write of out_buffer to stdout, and of one position()
WriteOutcomes == {"Ok", "BrokenPipe", "Other"}
QueryOutcomes == {"Ok", "Other"}

\* ---------------------------------------------------------------- terminal
Min(a, b) == IF a < b THEN a ELSE b
Max(a, b) == IF a > b THEN a ELSE b

\* The effect of one command on the terminal.  The cursor stays on the
\* screen: moves stop at the first and last row, a line feed on the last
\* row scrolls and leaves the cursor there.  resets counts the style resets
\* written, one per terminal row of the image (clear_printer).
ApplyOp(t, o) ==
  LET r == CASE o.op = "MoveTo"             -> Min(o.row, MaxRow)
             [] o.op = "MoveToPreviousLine" -> Max(0, t.row - o.n)
             [] o.op = "MoveToNextLine"     -> Min(MaxRow, t.row + o.n)
             [] o.op = "Newline"            -> Min(MaxRow, t.row + 1)
             [] OTHER                       -> t.row
  IN  [row     |-> r,
       written |-> t.written + 1,
       resets  |-> t.resets + (IF o = SetColor(ColorSpecNew) THEN 1 ELSE 0)]

RECURSIVE ApplyOps(_, _)
ApplyOps(t, ops) ==
  IF ops = << >> THEN t ELSE ApplyOps(ApplyOp(t, Head(ops)), Tail(ops))

\* mutant of print_buffer: BrokenPipe is returned like any other error
print_buffer_PropagatesBrokenPipe(t, ob, outcome) ==
  CASE outcome = "Ok" -> [term |-> ApplyOps(t, ob), out |-> << >>, res |-> "Ok"]
    [] OTHER          -> [term |-> t, out |-> ob, res |-> "IO"]

\* mutant of print_buffer: every error is swallowed
print_buffer_SwallowsAll(t, ob, outcome) ==
  CASE outcome = "Ok" -> [term |-> ApplyOps(t, ob), out |-> << >>, res |-> "Ok"]
    [] OTHER          -> [term |-> t, out |-> ob, res |-> "Ok"]

\* ------------------------------------------------------------ print_buffer
\* stdout.print(out_buffer): on success the buffer has been written and is
\* cleared; a BrokenPipe error is swallowed, any other error is returned.
\* A failed write is taken to have written nothing.
print_buffer(t, ob, outcome) ==
  CASE outcome = "Ok"         -> [term |-> ApplyOps(t, ob), out |-> << >>, res |-> "Ok"]
    [] outcome = "BrokenPipe" -> [term |-> t, out |-> ob, res |-> "Ok"]
    [] OTHER                  -> [term |-> t, out |-> ob, res |-> "IO"]

\* mutant of CellOps: the half blocks of the two one-color cases exchanged
CellOps_HalvesSwapped(c, is_last_row) ==
  IF is_last_row
  THEN IF c.bg # None
       THEN << SetColor([fg |-> c.bg, bg |-> None]), Glyph(UPPER_HALF_BLOCK) >>
       ELSE << MoveRight(1) >>
  ELSE CASE c.fg = None /\ c.bg = None -> << MoveRight(1) >>
         [] c.fg # None /\ c.bg = None ->
              << SetColor([fg |-> c.fg, bg |-> None]), Glyph(UPPER_HALF_BLOCK) >>
         [] c.fg = None /\ c.bg # None ->
              << SetColor([fg |-> c.bg, bg |-> None]), Glyph(LOWER_HALF_BLOCK) >>
         [] OTHER -> << SetColor(c), Glyph(LOWER_HALF_BLOCK) >>

\* mutant of CellOps: the last row drawn with the lower half block
CellOps_LastRowLower(c, is_last_row) ==
  IF is_last_row
  THEN IF c.bg # None
       THEN << SetColor([fg |-> c.bg, bg |-> None]), Glyph(LOWER_HALF_BLOCK) >>
       ELSE << MoveRight(1) >>
  ELSE CASE c.fg = None /\ c.bg = None -> << MoveRight(1) >>
         [] c.fg # None /\ c.bg = None ->
              << SetColor([fg |-> c.fg, bg |-> None]), Glyph(LOWER_HALF_BLOCK) >>
         [] c.fg = None /\ c.bg # None ->
              << SetColor([fg |-> c.bg, bg |-> None]), Glyph(UPPER_HALF_BLOCK) >>
         [] OTHER -> << SetColor(c), Glyph(LOWER_HALF_BLOCK) >>

\* ---------------------------------------------------------- fill_out_buffer
\* The commands one cell of the row buffer turns into.
CellOps(c, is_last_row) ==
  IF is_last_row
  THEN IF c.bg # None
       THEN << SetColor([fg |-> c.bg, bg |-> None]), Glyph(UPPER_HALF_BLOCK) >>
       ELSE << MoveRight(1) >>
  ELSE CASE c.fg = None /\ c.bg = None -> << MoveRight(1) >>
         [] c.fg # None /\ c.bg = None ->
              << SetColor([fg |-> c.fg, bg |-> None]), Glyph(LOWER_HALF_BLOCK) >>
         [] c.fg = None /\ c.bg # None ->
              << SetColor([fg |-> c.bg, bg |-> None]), Glyph(UPPER_HALF_BLOCK) >>
         [] OTHER -> << SetColor(c), Glyph(LOWER_HALF_BLOCK) >>

RECURSIVE RowOps(_, _)
RowOps(rb, is_last_row) ==
  IF rb = << >> THEN << >>
  ELSE CellOps(Head(rb), is_last_row) \o RowOps(Tail(rb), is_last_row)

clear_printer(ob) == Append(ob, SetColor(ColorSpecNew))

\* out_buffer after fill_out_buffer (the caller's row_buffer is cleared)
fill_out_buffer(rb, ob, is_last_row) ==
  Append(clear_printer(ob \o RowOps(rb, is_last_row)), Newline)

\* ------------------------------------------------------------------ print
\* mutant of ResolveColor: the transparent option is ignored
ResolveColor_NoPassthrough(data, row, col, cfg) ==
  IF is_pixel_transparent(data)
  THEN get_transparency_color(row, col, cfg.truecolor)
  ELSE get_color_from_pixel(data, cfg.truecolor)

\* lines 73-85: the color of one pixel
ResolveColor(data, row, col, cfg) ==
  IF is_pixel_transparent(data)
  THEN IF cfg.transparent THEN None
       ELSE get_transparency_color(row, col, cfg.truecolor)
  ELSE get_color_from_pixel(data, cfg.truecolor)

\* mutant of TracksCursor: the absolute_offset test is dropped
TracksCursor_IgnoresAbsolute(cfg, tty) == tty

\* mutant of TracksCursor: the is_tty test is dropped
TracksCursor_IgnoresTty(cfg, tty) == ~cfg.absolute_offset

\* line 31: whether the cursor position is tracked
TracksCursor(cfg, tty) == ~cfg.absolute_offset /\ tty

\* lines 38-57: the commands of the y offset (absolute with y < 0 is the
\* configuration error and yields none)
RECURSIVE Newlines(_)
Newlines(n) == IF n <= 0 THEN << >> ELSE << Newline >> \o Newlines(n - 1)

\* mutant of OffsetOps: a negative relative offset moves down
OffsetOps_WrongDirection(cfg) ==
  IF cfg.absolute_offset
  THEN IF cfg.y >= 0 THEN << MoveTo(0, cfg.y) >> ELSE << >>
  ELSE IF cfg.y < 0 THEN << MoveToNextLine(-cfg.y) >>
       ELSE Newlines(cfg.y)

OffsetOps(cfg) ==
  IF cfg.absolute_offset
  THEN IF cfg.y >= 0 THEN << MoveTo(0, cfg.y) >> ELSE << >>
  ELSE IF cfg.y < 0 THEN << MoveToPreviousLine(-cfg.y) >>
       ELSE Newlines(cfg.y)

\* lines 110-112: the x offset of a terminal row
XOffsetOps(cfg) == IF cfg.x > 0 THEN << MoveRight(cfg.x) >> ELSE << >>

\* lines 138-140: the correction after rendering
CorrectionOps(pos_y, new_pos_y) ==
  IF pos_y > new_pos_y THEN << MoveToNextLine(pos_y - new_pos_y) >> ELSE << >>

\* mutant of HasPendingRow: the odd row is never rendered
HasPendingRow_Never(rb) == FALSE

\* mutant of HasPendingRow: the last-row rendering is done unconditionally
HasPendingRow_Always(rb) == TRUE

\* line 128: whether a top-only row is left when the pixels are exhausted
HasPendingRow(rb) == rb # << >>

NoRow == [k |-> -1, is_last |-> FALSE, cells |-> << >>, ops |-> << >>,
          px |-> << >>]

Init ==
  /\ config \in [absolute_offset : BOOL, y : (-MaxUp)..MaxDown, x : 0..MaxX,
                  truecolor : BOOL, transparent : BOOL]
  /\ img \in {d \in [width : 0..MaxWidth, height : 0..MaxHeight] :
                d.width * d.height <= MaxPixels}
  /\ is_tty \in BOOL
  /\ \E r \in 0..MaxRow :
        /\ term = [row |-> r, written |-> 0, resets |-> 0]
        /\ start_row = r
  /\ pc = "sample"
  /\ result = "none"
  /\ cursor_pos = NoPos
  /\ out_buffer = << >>
  /\ row_buffer = << >>
  /\ mode = "Top"
  /\ curr_col_px = 0
  /\ curr_row_px = 0
  /\ px_i = 0
  /\ pair_px = << >>
  /\ all_alpha0 = TRUE
  /\ rows_filled = 0
  /\ last_row = NoRow
  /\ queries = 0
  /\ fails = {}

\* lines 31-35: sample the cursor position; a failed query is dropped
SampleCursor ==
  /\ pc = "sample"
  /\ pc' = "offset"
  /\ IF TracksCursor(config, is_tty)
     THEN \E outcome \in QueryOutcomes :
            /\ queries' = queries + 1
            /\ cursor_pos' = IF outcome = "Ok" THEN SomePos(term.row) ELSE NoPos
            /\ fails' = IF outcome = "Ok" THEN fails
                        ELSE fails \cup {<< "pre_sample", outcome, term.written >>}
     ELSE UNCHANGED << queries, cursor_pos, fails >>
  /\ UNCHANGED << config, img, is_tty, term, result, out_buffer, row_buffer,
                  mode, curr_col_px, curr_row_px, px_i, pair_px, all_alpha0,
                  rows_filled, last_row, start_row >>

\* lines 38-57: adjust the y offset, or return the configuration error
AdjustOffset ==
  /\ pc = "offset"
  /\ IF config.absolute_offset /\ config.y < 0
     THEN /\ pc' = "done"
          /\ result' = "InvalidConfiguration"
          /\ UNCHANGED out_buffer
     ELSE /\ pc' = "pixels"
          /\ out_buffer' = out_buffer \o OffsetOps(config)
          /\ UNCHANGED result
  /\ UNCHANGED << config, img, is_tty, term, cursor_pos, row_buffer, mode,
                  curr_col_px, curr_row_px, px_i, pair_px, all_alpha0,
                  rows_filled, last_row, queries, start_row, fails >>

\* mutant of StoreColor: the bottom row is stored from the right
StoreColor_MirroredColumn(rb, md, col, color) ==
  IF md = "Top"
  THEN Append(rb, [ColorSpecNew EXCEPT !.bg = color])
  ELSE [rb EXCEPT ![Len(rb) - col].fg = color]

\* mutant of StoreColor: a cell is pushed in Bottom mode as well
StoreColor_AlwaysPush(rb, md, col, color) ==
  IF md = "Top"
  THEN Append(rb, [ColorSpecNew EXCEPT !.bg = color])
  ELSE Append(rb, [ColorSpecNew EXCEPT !.fg = color])

\* lines 87-94: put the pixel's color into the row buffer, as the background
\* of a new cell in Top mode, as the foreground of the cell at the current
\* column in Bottom mode
StoreColor(rb, md, col, color) ==
  IF md = "Top"
  THEN Append(rb, [ColorSpecNew EXCEPT !.bg = color])
  ELSE [rb EXCEPT ![col + 1].fg = color]

\* line 98: the row buffer holds a full row
RowFull(rb, width) == Len(rb) = width

\* the commands a step added to out_buffer
Added(before, after) == SubSeq(after, Len(before) + 1, Len(after))

\* lines 69-125: one iteration of the loop over img.pixels().  When the
\* pixel completes the bottom row, the row is rendered into out_buffer and
\* out_buffer is written to the terminal (lines 105-120).
PixelStep ==
  /\ pc = "pixels"
  /\ px_i < img.width * img.height
  /\ \E data \in PixelValues :
       LET color == ResolveColor(data, curr_row_px, curr_col_px, config)
           rb1   == StoreColor(row_buffer, mode, curr_col_px, color)
           col1  == curr_col_px + 1
           px1   == Append(pair_px, data)
       IN
       /\ px_i' = px_i + 1
       /\ all_alpha0' = (all_alpha0 /\ is_pixel_transparent(data))
       /\ IF RowFull(rb1, img.width) /\ mode = "Top"
          THEN /\ mode' = "Bottom"
               /\ curr_col_px' = 0
               /\ curr_row_px' = curr_row_px + 1
               /\ row_buffer' = rb1
               /\ pair_px' = px1
               /\ last_row' = NoRow
               /\ UNCHANGED << term, pc, result, out_buffer, rows_filled,
                               fails >>
          ELSE IF RowFull(rb1, img.width) /\ col1 = img.width
          THEN \E outcome \in WriteOutcomes :
                 LET ob1 == out_buffer \o XOffsetOps(config)
                     ob2 == fill_out_buffer(rb1, ob1, FALSE)
                     pb  == print_buffer(term, ob2, outcome)
                 IN
                 /\ curr_col_px' = 0
                 /\ curr_row_px' = curr_row_px + 1
                 /\ row_buffer' = << >>
                 /\ pair_px' = << >>
                 /\ rows_filled' = rows_filled + 1
                 /\ last_row' = [k |-> rows_filled, is_last |-> FALSE,
                                 cells |-> rb1, ops |-> Added(out_buffer, ob2),
                                 px |-> px1]
                 /\ term' = pb.term
                 /\ out_buffer' = pb.out
                 /\ fails' = IF outcome = "Ok" THEN fails
                             ELSE fails \cup {<< "row_flush", outcome, term.written >>}
                 /\ IF pb.res = "Ok"
                    THEN /\ mode' = "Top"
                         /\ UNCHANGED << pc, result >>
                    ELSE /\ pc' = "done"
                         /\ result' = "IO"
                         /\ UNCHANGED mode
          ELSE /\ curr_col_px' = col1
               /\ row_buffer' = rb1
               /\ pair_px' = px1
               /\ last_row' = NoRow
               /\ UNCHANGED << term, pc, result, out_buffer, mode, curr_row_px,
                               rows_filled, fails >>
  /\ UNCHANGED << config, img, is_tty, cursor_pos, queries, start_row >>

\* lines 127-130: the pixels are exhausted; a row buffer that is not empty
\* (odd height) is rendered into out_buffer as the last row
FlushLastRow ==
  /\ pc = "pixels"
  /\ px_i >= img.width * img.height
  /\ pc' = "post"
  /\ IF HasPendingRow(row_buffer)
     THEN LET ob2 == fill_out_buffer(row_buffer, out_buffer, TRUE)
          IN  /\ out_buffer' = ob2
              /\ row_buffer' = << >>
              /\ pair_px' = << >>
              /\ rows_filled' = rows_filled + 1
              /\ last_row' = [k |-> rows_filled, is_last |-> TRUE,
                              cells |-> row_buffer,
                              ops |-> Added(out_buffer, ob2), px |-> pair_px]
     ELSE UNCHANGED << out_buffer, row_buffer, pair_px, rows_filled, last_row >>
  /\ UNCHANGED << config, img, is_tty, term, result, cursor_pos, mode,
                  curr_col_px, curr_row_px, px_i, all_alpha0, queries,
                  start_row, fails >>

\* lines 135-142: sample the cursor again and, if it is above the row noted
\* before rendering, queue a move down by the difference
RestoreCursor ==
  /\ pc = "post"
  /\ IF TracksCursor(config, is_tty) /\ cursor_pos.some
     THEN \E outcome \in QueryOutcomes :
            /\ queries' = queries + 1
            /\ IF outcome = "Ok"
               THEN /\ out_buffer' =
                         out_buffer \o CorrectionOps(cursor_pos.y, term.row)
                    /\ pc' = "final"
                    /\ UNCHANGED << result, fails >>
               ELSE /\ pc' = "done"
                    /\ result' = "IO"
                    /\ fails' = fails \cup
                                  {<< "post_sample", outcome, term.written >>}
                    /\ UNCHANGED out_buffer
     ELSE /\ pc' = "final"
          /\ UNCHANGED << queries, out_buffer, result, fails >>
  /\ UNCHANGED << config, img, is_tty, term, cursor_pos, row_buffer, mode,
                  curr_col_px, curr_row_px, px_i, pair_px, all_alpha0,
                  rows_filled, last_row, start_row >>

\* line 145: the final write of out_buffer; its result is print's result
FinalFlush ==
  /\ pc = "final"
  /\ \E outcome \in WriteOutcomes :
       LET pb == print_buffer(term, out_buffer, outcome)
       IN  /\ term' = pb.term
           /\ out_buffer' = pb.out
           /\ result' = pb.res
           /\ fails' = IF outcome = "Ok" THEN fails
                       ELSE fails \cup {<< "final_flush", outcome, term.written >>}
  /\ pc' = "done"
  /\ UNCHANGED << config, img, is_tty, cursor_pos, row_buffer, mode,
                  curr_col_px, curr_row_px, px_i, pair_px, all_alpha0,
                  rows_filled, last_row, queries, start_row >>

Next ==
  \/ SampleCursor
  \/ AdjustOffset
  \/ PixelStep
  \/ FlushLastRow
  \/ RestoreCursor
  \/ FinalFlush

Spec == Init /\ [][Next]_vars

\* ================================================================== claims
\* Reading a terminal row back from the commands put into out_buffer.  A row
\* ends with the style reset and the line feed; before them each cell is
\* either a color set followed by a glyph, or a one-column move right.  The
\* cells are read from the end of the row, so whatever precedes the first
\* cell is the row's prefix.
Skip == [kind |-> "skip", ch |-> "", fg |-> None, bg |-> None]
Bad  == [kind |-> "bad", ch |-> "", fg |-> None, bg |-> None]
Drawn(ch, fg, bg) == [kind |-> "glyph", ch |-> ch, fg |-> fg, bg |-> bg]

RowBody(ops) == SubSeq(ops, 1, Len(ops) - 2)
RowEnd(ops)  == SubSeq(ops, Len(ops) - 1, Len(ops))

RECURSIVE ParseBack(_, _)
ParseBack(ops, n) ==
  IF n = 0 THEN [cells |-> << >>, rest |-> ops]
  ELSE IF ops = << >> THEN [cells |-> << Bad >>, rest |-> << >>]
  ELSE LET l    == Len(ops)
           last == ops[l]
       IN  IF last.op = "Glyph" /\ l >= 2 /\ ops[l - 1].op = "SetColor"
           THEN LET r == ParseBack(SubSeq(ops, 1, l - 2), n - 1)
                IN  [cells |-> Append(r.cells,
                                      Drawn(last.ch, ops[l - 1].fg, ops[l - 1].bg)),
                     rest  |-> r.rest]
           ELSE IF last = MoveRight(1)
           THEN LET r == ParseBack(SubSeq(ops, 1, l - 1), n - 1)
                IN  [cells |-> Append(r.cells, Skip), rest |-> r.rest]
           ELSE [cells |-> << Bad >>, rest |-> << >>]

\* the cells of the row the last step emitted, in column order, and the
\* commands that precede them
RowCells  == ParseBack(RowBody(last_row.ops), img.width).cells
RowPrefix == ParseBack(RowBody(last_row.ops), img.width).rest
RowEmitted == last_row.k >= 0
WellFormedRow ==
  /\ Len(last_row.ops) >= 2
  /\ RowEnd(last_row.ops) = << SetColor(ColorSpecNew), Newline >>
  /\ Len(RowCells) = img.width
  /\ \A c \in 1..Len(RowCells) : RowCells[c] # Bad

\* the colors of the pixels of the emitted row: terminal row k holds pixel
\* rows 2k (top) and 2k+1 (bottom); columns are counted from 1 here
TopColor(c) ==
  ResolveColor(last_row.px[c], 2 * last_row.k, c - 1, config)
BottomColor(c) ==
  ResolveColor(last_row.px[img.width + c], 2 * last_row.k + 1, c - 1, config)

CeilHalf(h) == (h + 1) \div 2
Finished == pc = "done"

\* C1: in relative mode on an interactive terminal, once print has returned
\* and all of its output has reached the terminal, the cursor row is not
\* above the row the cursor was on before the call.
C1_CursorNotAbove ==
  ( /\ Finished /\ result = "Ok"
    /\ ~config.absolute_offset /\ is_tty
    /\ fails = {} /\ out_buffer = << >> )
  => term.row >= start_row

\* C2: for an image of width > 0 and height H, a print that returns Ok has
\* produced exactly ceil(H / 2) terminal rows, and when all of its output has
\* been written, exactly that many rows have reached the terminal.
C2_RowCount ==
  (Finished /\ result = "Ok" /\ img.width > 0)
  => /\ rows_filled = CeilHalf(img.height)
     /\ out_buffer = << >> => term.resets = CeilHalf(img.height)

C2_Witness ==
  /\ Finished /\ result = "Ok"
  /\ img.width = 2 /\ img.height = 3
  /\ term.resets = 2

\* C3: with absolute_offset and y < 0, print returns the configuration error
\* and, at every point of the call, nothing has been written to the terminal
\* or queued and the cursor position has not been queried.
C3_ConfigErrorFirst ==
  (config.absolute_offset /\ config.y < 0)
  => /\ term.written = 0
     /\ out_buffer = << >>
     /\ queries = 0
     /\ pc \in {"sample", "offset", "done"}
     /\ Finished => result = "InvalidConfiguration"

C3_Witness ==
  /\ Finished /\ result = "InvalidConfiguration"
  /\ is_tty /\ img.width > 0 /\ img.height > 0

\* C4: when config.x > 0, every terminal row emitted, the last row of an
\* odd-height image included, starts with a move right by config.x columns
\* ahead of its cells.
C4_XOffsetEveryRow ==
  (RowEmitted /\ config.x > 0)
  => RowPrefix = << MoveRight(config.x) >>

C4_Witness ==
  /\ RowEmitted /\ ~last_row.is_last /\ config.x > 0
  /\ RowPrefix = << MoveRight(config.x) >>

\* C5 as stated: in a row that is not the last, a cell with only the top
\* pixel colored is the lower half block in that color, a cell with only the
\* bottom pixel colored is the upper half block in that color.
C5_AsStated ==
  (RowEmitted /\ ~last_row.is_last /\ WellFormedRow)
  => \A c \in 1..img.width :
       /\ (TopColor(c) # None /\ BottomColor(c) = None)
            => RowCells[c] = Drawn(LOWER_HALF_BLOCK, TopColor(c), None)
       /\ (TopColor(c) = None /\ BottomColor(c) # None)
            => RowCells[c] = Drawn(UPPER_HALF_BLOCK, BottomColor(c), None)

\* C5 amended: in a row that is not the last, a cell with only the top pixel
\* colored is the upper half block with that color as text color, a cell with
\* only the bottom pixel colored is the lower half block with that color as
\* text color; neither sets a background color.
C5_OneColorCells ==
  RowEmitted /\ ~last_row.is_last
  => /\ WellFormedRow
     /\ \A c \in 1..img.width :
          /\ (TopColor(c) # None /\ BottomColor(c) = None)
               => RowCells[c] = Drawn(UPPER_HALF_BLOCK, TopColor(c), None)
          /\ (TopColor(c) = None /\ BottomColor(c) # None)
               => RowCells[c] = Drawn(LOWER_HALF_BLOCK, BottomColor(c), None)

C5_Witness ==
  /\ RowEmitted /\ ~last_row.is_last /\ img.width = 2
  /\ TopColor(1) # None /\ BottomColor(1) = None
  /\ TopColor(2) = None /\ BottomColor(2) # None

\* C6: terminal row k is made of pixel rows 2k and 2k+1; at every column
\* whose two pixels have a color it draws the lower half block with the top
\* pixel's color as background and the bottom pixel's color as foreground;
\* the cells are in column order, one per column.
C6_PairedCells ==
  RowEmitted /\ ~last_row.is_last
  => /\ WellFormedRow
     /\ Len(last_row.px) = 2 * img.width
     /\ px_i = 2 * img.width * (last_row.k + 1)
     /\ \A c \in 1..img.width :
          (TopColor(c) # None /\ BottomColor(c) # None)
          => RowCells[c] = Drawn(LOWER_HALF_BLOCK, BottomColor(c), TopColor(c))

C6_Witness ==
  /\ RowEmitted /\ ~last_row.is_last /\ img.width = 2 /\ last_row.k = 0
  /\ \A c \in 1..2 : TopColor(c) # None /\ BottomColor(c) # None
  /\ TopColor(1) # TopColor(2)
  /\ BottomColor(1) # BottomColor(2)
  /\ TopColor(1) # BottomColor(1)

\* C7: once the pixels are exhausted, the last-row rendering has been done
\* iff the height is odd (width > 0); the row it emits holds the pixels of
\* the last pixel row, each cell the upper half block with the pixel's color
\* as text color, or a one-column skip for a pixel without color; it has no
\* lower half block and sets no background color.
C7_LastRow ==
  /\ pc \in {"post", "final"}
       => (last_row.is_last <=> (img.width > 0 /\ img.height % 2 = 1))
  /\ last_row.is_last
       => /\ WellFormedRow
          /\ Len(last_row.px) = img.width
          /\ px_i = img.width * img.height
          /\ 2 * last_row.k = img.height - 1
          /\ \A c \in 1..img.width :
               RowCells[c] = IF TopColor(c) = None THEN Skip
                             ELSE Drawn(UPPER_HALF_BLOCK, TopColor(c), None)
          /\ \A i \in 1..Len(last_row.ops) :
               /\ last_row.ops[i] # Glyph(LOWER_HALF_BLOCK)
               /\ last_row.ops[i].op = "SetColor" => last_row.ops[i].bg = None

C7_Witness ==
  /\ pc = "post" /\ last_row.is_last
  /\ img.width = 2 /\ img.height = 3
  /\ RowCells[1] = Skip /\ RowCells[2].kind = "glyph"

\* the failures of this call: << place, kind, commands written before it >>
PipeFailures  == {f \in fails : f[2] = "BrokenPipe"}
OtherFailures == {f \in fails : f[2] # "BrokenPipe"}

\* C8: a BrokenPipe failure of a write of out_buffer, after a row or at the
\* final flush, is not propagated: the loop goes on after it, and a call
\* whose only failures are BrokenPipe failures returns Ok.
C8_BrokenPipeSwallowed ==
  /\ \A f \in PipeFailures : f[1] \in {"row_flush", "final_flush"}
  /\ (PipeFailures # {} /\ OtherFailures = {})
       => /\ result \in {"none", "Ok"}
          /\ Finished => result = "Ok"
          /\ ~Finished => pc \in {"pixels", "post", "final"}

C8_Witness ==
  /\ Finished /\ result = "Ok" /\ OtherFailures = {}
  /\ \E f \in fails : f[1] = "row_flush"
  /\ \E f \in fails : f[1] = "final_flush"

\* C9 as stated: a failure other than BrokenPipe of a write or of a cursor
\* query, wherever in the call it happens, makes print return an I/O error at
\* once, nothing being written after it.
C9_AsStated ==
  Finished
  => \A f \in OtherFailures :
       /\ result = "IO"
       /\ term.written = f[3]

\* C9 amended: a failure other than BrokenPipe of a write (after a row, at
\* the final flush) or of the cursor query after rendering makes print return
\* an I/O error at once, nothing being written after it; a failure of the
\* cursor query before rendering is dropped: print goes on without a noted
\* position and makes no further query.
C9_ErrorsPropagate ==
  \A f \in OtherFailures :
    IF f[1] = "pre_sample"
    THEN ~cursor_pos.some /\ queries = 1
    ELSE /\ Finished /\ result = "IO"
         /\ term.written = f[3]
         /\ OtherFailures \ {f} \subseteq {g \in fails : g[1] = "pre_sample"}

C9_Witness ==
  /\ Finished /\ result = "IO"
  /\ \E f \in OtherFailures : f[1] = "row_flush" /\ term.written = f[3]
  /\ px_i < img.width * img.height
  /\ out_buffer # << >>

\* C10 as stated: with transparent set and every pixel of alpha 0, the image
\* rows consist of cursor-right skips and line terminators only.
C10_AsStated ==
  (config.transparent /\ all_alpha0 /\ px_i = img.width * img.height /\ RowEmitted)
  => \A i \in 1..Len(last_row.ops) :
       last_row.ops[i].op \in {"MoveRight", "Newline"}

\* C10 amended: with transparent set and every pixel of alpha 0, no color is
\* set and no glyph is written: an image row consists of cursor-right moves,
\* then the one style reset of clear_printer and the line terminator.
C10_NothingPainted ==
  (config.transparent /\ all_alpha0 /\ RowEmitted)
  => /\ Len(last_row.ops) >= 2
     /\ RowEnd(last_row.ops) = << SetColor(ColorSpecNew), Newline >>
     /\ \A i \in 1..(Len(last_row.ops) - 2) : last_row.ops[i].op = "MoveRight"
     /\ \A c \in 1..Len(RowCells) : RowCells[c] = Skip

C10_Witness ==
  /\ config.transparent /\ all_alpha0 /\ Finished /\ result = "Ok"
  /\ img.width = 2 /\ img.height = 3 /\ px_i = 6
  /\ last_row.is_last /\ term.resets = 2

\* The pixels behind the row buffer.  pair_px[j] is the pixel of index
\* px_i - Len(pair_px) + j - 1 of the row-major stream; its color is the
\* background of cell j while j <= width, the foreground of cell j - width
\* after that.
PxIndex(j) == px_i - Len(pair_px) + j - 1
PxRow(j)   == PxIndex(j) \div img.width
PxCol(j)   == PxIndex(j) % img.width
Stored(j)  == IF j <= img.width THEN row_buffer[j].bg
                                ELSE row_buffer[j - img.width].fg

DarkGrey  == << 102, 102, 102 >>
LightGrey == << 153, 153, 153 >>
Quantized(rgb) == IF config.truecolor THEN Rgb(rgb[1], rgb[2], rgb[3])
                                      ELSE Ansi256(ansi256_from_rgb(rgb))

\* C11: with transparent false, the counters handed to
\* get_transparency_color are the next pixel's own row and column, and every
\* pixel of alpha 0 in the row buffer carries the darker grey iff its own row
\* and column have the same parity, the lighter grey otherwise.
C11_Checkerboard ==
  /\ (pc = "pixels" /\ px_i < img.width * img.height)
       => /\ curr_row_px = px_i \div img.width
          /\ curr_col_px = px_i % img.width
  /\ (~config.transparent /\ pc = "pixels")
       => \A j \in 1..Len(pair_px) :
            is_pixel_transparent(pair_px[j])
            => Stored(j) = IF PxRow(j) % 2 = PxCol(j) % 2
                           THEN Quantized(DarkGrey) ELSE Quantized(LightGrey)

C11_Witness ==
  /\ ~config.transparent /\ pc = "pixels" /\ config.y < 0 /\ config.x > 0
  /\ img.width = 2 /\ Len(pair_px) = 3 /\ PxRow(1) = 0 /\ PxRow(3) = 1
  /\ \A j \in 1..3 : is_pixel_transparent(pair_px[j])
  /\ Stored(2) = Stored(3) /\ Stored(1) # Stored(2)

ZeroDimension == img.width = 0 \/ img.height = 0
ConfigError   == config.absolute_offset /\ config.y < 0

\* the pre-render positioning, spelled out per case
IsPositioning(ops) ==
  IF config.absolute_offset
  THEN ops = << MoveTo(0, config.y) >>
  ELSE IF config.y < 0
  THEN ops = << MoveToPreviousLine(0 - config.y) >>
  ELSE /\ Len(ops) = config.y
       /\ \A i \in 1..Len(ops) : ops[i] = Newline

C13_BufferEmptyAfterFlush ==
  /\ (pc = "pixels" /\ RowEmitted) => out_buffer = << >>
  /\ (Finished /\ result = "Ok") => out_buffer = << >>

\* C14: before every pixel step, in Top mode the row buffer is as long as the
\* column counter and shorter than the width; in Bottom mode it is as long
\* as the width and the column counter that indexes it is below the width.
\* The row buffer is never longer than the width, keeps its length over a
\* Bottom step that does not flush, and is empty right after every row flush.
C14_State ==
  /\ Len(row_buffer) <= img.width
  /\ (pc = "pixels" /\ px_i < img.width * img.height)
       => /\ mode = "Top"
               => Len(row_buffer) = curr_col_px /\ curr_col_px < img.width
          /\ mode = "Bottom"
               => Len(row_buffer) = img.width /\ curr_col_px < img.width
  /\ RowEmitted => row_buffer = << >>

C14_Step ==
  (pc = "pixels" /\ mode = "Bottom" /\ px_i' = px_i + 1)
  => Len(row_buffer') \in {Len(row_buffer), 0}

C14_RowPairing == [](C14_State) /\ [][C14_Step]_vars

C14_Witness ==
  /\ pc = "pixels" /\ mode = "Bottom" /\ img.width = 2 /\ curr_col_px = 1
  /\ Len(row_buffer) = 2 /\ curr_row_px = 1
  /\ row_buffer[1].fg # None /\ row_buffer[2].fg = None

\* C15: at the moment the cursor position is sampled after rendering, every
\* cursor movement and every terminal row this call has produced has been
\* written to the terminal: out_buffer holds nothing unwritten.  (Calls
\* without any I/O failure.)
C15_FlushedBeforeSample ==
  (pc = "post" /\ TracksCursor(config, is_tty) /\ cursor_pos.some /\ fails = {})
  => out_buffer = << >>

PositioningLen ==
  IF ~config.absolute_offset /\ config.y >= 0 THEN config.y ELSE 1

\* C16: the pre-render positioning is exactly one of: MoveTo(0, y) in
\* absolute mode with y >= 0; MoveToPreviousLine(|y|) in relative mode with
\* y < 0; y line terminators and no cursor move in relative mode with
\* y >= 0.  Nothing is queued or written before it, it stands in out_buffer
\* ahead of everything of the first terminal row, and the cursor row noted in
\* relative interactive mode is the row from before it.
C16_Positioning ==
  /\ pc \in {"sample", "offset"} => (out_buffer = << >> /\ term.written = 0)
  /\ cursor_pos.some => cursor_pos.y = start_row
  /\ (pc = "pixels" /\ rows_filled = 0)
       => (IsPositioning(out_buffer) /\ term.written = 0)
  /\ (last_row.k = 0 /\ pc \in {"pixels", "post"})
       => IF out_buffer = << >>
          THEN term.written = PositioningLen + Len(last_row.ops)
          ELSE LET n == Len(out_buffer) - Len(last_row.ops)
               IN  /\ n >= 0
                   /\ IsPositioning(SubSeq(out_buffer, 1, n))
                   /\ SubSeq(out_buffer, n + 1, Len(out_buffer)) = last_row.ops
                   /\ term.written = 0

C16_Witness ==
  /\ pc = "pixels" /\ last_row.k = 0 /\ out_buffer = << >>
  /\ ~config.absolute_offset /\ config.y < 0 /\ config.x > 0
  /\ cursor_pos.some /\ start_row = 2 /\ term.row = 1
  /\ term.written = 1 + Len(last_row.ops)

\* the correction after rendering is the only MoveToNextLine print emits
NoCorrectionQueued ==
  \A i \in 1..Len(out_buffer) : out_buffer[i].op # "MoveToNextLine"
PreSampleFailed == \E f \in fails : f[1] = "pre_sample"

\* C17: with absolute_offset set or stdout not a terminal, print never
\* queries the cursor position and never queues a correction; and when the
\* query before rendering gave no position, no query is made after rendering
\* and no correction is queued.
C17_NoTrackingNoCorrection ==
  /\ (config.absolute_offset \/ ~is_tty)
       => /\ queries = 0
          /\ ~cursor_pos.some
          /\ NoCorrectionQueued
  /\ (pc # "sample" /\ ~cursor_pos.some)
       => /\ queries = IF PreSampleFailed THEN 1 ELSE 0
          /\ NoCorrectionQueued
          /\ \A f \in fails : f[1] # "post_sample"

C17_Witness ==
  /\ Finished /\ result = "Ok" /\ out_buffer = << >>
  /\ ~config.absolute_offset /\ is_tty /\ PreSampleFailed
  /\ queries = 1 /\ img.height = 2 /\ img.width = 2
  /\ term.row < start_row

\* a color slot of the row buffer in the representation truecolor selects
InRepresentation(c) ==
  \/ c = None
  \/ config.truecolor /\ c[1] = "Rgb" /\ Len(c) = 4
  \/ ~config.truecolor /\ c[1] = "Ansi256" /\ Len(c) = 2 /\ c[2] \in 0..255

\* C18: every color in the row buffer, of an opaque pixel or of the
\* checkerboard, is in the representation config.truecolor selects: with
\* truecolor an Rgb triple, the pixel's own RGB for an opaque pixel and one
\* of the two greys for a pixel of alpha 0; without it a palette index.
C18_OneRepresentation ==
  /\ \A c \in 1..Len(row_buffer) :
        InRepresentation(row_buffer[c].fg) /\ InRepresentation(row_buffer[c].bg)
  /\ \A c \in 1..Len(last_row.cells) :
        /\ InRepresentation(last_row.cells[c].fg)
        /\ InRepresentation(last_row.cells[c].bg)
  /\ \A j \in 1..Len(pair_px) :
        LET data == pair_px[j]
        IN  /\ Stored(j) = None <=> (is_pixel_transparent(data) /\ config.transparent)
            /\ (config.truecolor /\ ~is_pixel_transparent(data))
                 => Stored(j) = Rgb(data[1], data[2], data[3])
            /\ (config.truecolor /\ Stored(j) # None /\ is_pixel_transparent(data))
                 => Stored(j) \in {Rgb(102, 102, 102), Rgb(153, 153, 153)}

C18_Witness ==
  /\ ~config.truecolor /\ ~config.transparent
  /\ img.width = 2 /\ Len(pair_px) = 3
  /\ ~is_pixel_transparent(pair_px[1]) /\ is_pixel_transparent(pair_px[2])
  /\ ~is_pixel_transparent(pair_px[3])
  /\ \A j \in 1..3 : Stored(j)[1] = "Ansi256"
  /\ Stored(1) = Stored(3) /\ Stored(1) # Stored(2)

====
